---- MODULE Spec2Model ----
(***************************************************************************)
(* cdu: a dynamic-DNS updater.  One run (main.rs `app`) resolves the       *)
(* outside IPv4 address, compares it with the persisted state, fetches the *)
(* provider's A record, updates it when it differs, persists and notifies. *)
(*                                                                         *)
(* Three specifications share the variables:                               *)
(*   Spec         a sequence of runs of `app` against a file system and a  *)
(*                DNS provider;                                            *)
(*   SpecResolve  network.rs `get_outside_ip` on arbitrary endpoint        *)
(*                behaviour;                                               *)
(*   SpecLoad     config.rs `Config::load` on arbitrary directory / file   *)
(*                content.                                                 *)
(***************************************************************************)
EXTENDS Integers, Sequences, FiniteSets, TLC

----------------------------------------------------------------------------
(* Bounds of the model *)

\* number of distinct outside addresses the environment can show
NumIPs == 2
\* number of runs of the program in one behaviour
MaxRuns == 2

----------------------------------------------------------------------------
(* Values *)

\* Option::None, for every Option<...> of the program; Some(s) of a string
\* option is the one-element sequence <<s>>
None == <<>>
Some(s) == <<s>>
Unwrap(o) == o[1]

\* Ipv4Addr: four octets.  Ip(1) = 1.2.3.4, Ip(2) = 5.6.7.8, ...
Ip(i) == <<(4 * i - 3) % 256, (4 * i - 2) % 256, (4 * i - 1) % 256, (4 * i) % 256>>
IPS == {Ip(i) : i \in 1..NumIPs}

\* Text is a sequence of one-character strings.
DigitChars == <<"0", "1", "2", "3", "4", "5", "6", "7", "8", "9">>
IsDigit(c) == \E k \in 1..Len(DigitChars) : DigitChars[k] = c
DigitVal(c) == (CHOOSE k \in 1..Len(DigitChars) : DigitChars[k] = c) - 1
WhiteSpace == {" ", "\n", "\t", "\r"}

\* u8 Display: decimal, no leading zeros
RECURSIVE U8ToText(_)
U8ToText(n) ==
    IF n < Len(DigitChars) THEN <<DigitChars[n + 1]>>
    ELSE U8ToText(n \div Len(DigitChars)) \o <<DigitChars[(n % Len(DigitChars)) + 1]>>

\* Ipv4Addr::to_string: dotted decimal
IpToText(ip) ==
    U8ToText(ip[1]) \o <<".">> \o U8ToText(ip[2]) \o <<".">> \o
    U8ToText(ip[3]) \o <<".">> \o U8ToText(ip[4])

\* str::trim: drop leading and trailing white space
RECURSIVE TrimStart(_)
TrimStart(t) ==
    IF t # <<>> /\ Head(t) \in WhiteSpace THEN TrimStart(Tail(t)) ELSE t
RECURSIVE TrimEnd(_)
TrimEnd(t) ==
    IF t # <<>> /\ t[Len(t)] \in WhiteSpace THEN TrimEnd(SubSeq(t, 1, Len(t) - 1)) ELSE t
Trim(t) == TrimEnd(TrimStart(t))

\* the parts of a text between the dots
RECURSIVE SplitDots(_, _)
SplitDots(t, cur) ==
    IF t = <<>> THEN <<cur>>
    ELSE IF Head(t) = "." THEN <<cur>> \o SplitDots(Tail(t), <<>>)
    ELSE SplitDots(Tail(t), Append(cur, Head(t)))

RECURSIVE DecVal(_, _)
DecVal(t, acc) ==
    IF t = <<>> THEN acc ELSE DecVal(Tail(t), acc * Len(DigitChars) + DigitVal(Head(t)))

\* one octet of the dotted form: 1..3 digits, no leading zero, at most 255
OctetOk(p) ==
    /\ Len(p) \in 1..3
    /\ \A k \in 1..Len(p) : IsDigit(p[k])
    /\ (Len(p) > 1 => p[1] # "0")
    /\ DecVal(p, 0) < 256

\* <str as FromStr for Ipv4Addr>::parse: None when the text is no address
ParseIpv4(t) ==
    LET parts == SplitDots(t, <<>>) IN
    IF Len(parts) = 4 /\ \A k \in 1..4 : OctetOk(parts[k])
    THEN [k \in 1..4 |-> DecVal(parts[k], 0)]
    ELSE None

----------------------------------------------------------------------------
(* network.rs: the IP resolver *)

SERVERS == <<"icanhazip.com", "wtfismyip.com", "da.gd", "seeip.org", "ifconfig.co", "ipw.cn">>

\* What one endpoint does when it is asked:
\*   kind "err"  : client.get(..).send() or response.text() returns Err
\*   kind "body" : the response text
ErrOutcome == [kind |-> "err", body |-> <<>>]
BodyOutcome(t) == [kind |-> "body", body |-> t]
JunkBody == <<"<", "h", "1", ">">>
\* the address of Ip(1) is served with surrounding white space, the others bare
IpBody(ip) == IF ip = Ip(1) THEN <<" ">> \o IpToText(ip) \o <<"\n">> ELSE IpToText(ip)
Outcomes == {ErrOutcome, BodyOutcome(JunkBody)} \cup {BodyOutcome(IpBody(ip)) : ip \in IPS}

\* the result of get_outside_ip, with the list positions it consulted
NoRes == [status |-> "none", ip |-> None, err |-> <<>>, consulted |-> <<>>]
ExhaustedMsg == <<"Failed to get outside IP from all servers">>
TransportMsg(server) == <<"error sending request for url https://", server>>

\* servers = SERVERS.to_vec(), the preferred server inserted at the front
ServerList(preferred_server) ==
    IF preferred_server # None THEN <<Unwrap(preferred_server)>> \o SERVERS ELSE SERVERS

\* the loop over the servers, from list position k on;
\* responses[k] is what the endpoint at list position k does
RECURSIVE ResolveLoop(_, _, _, _)
ResolveLoop(servers, responses, k, consulted) ==
    IF k > Len(servers)
    THEN [status |-> "err", ip |-> None, err |-> ExhaustedMsg, consulted |-> consulted]
    ELSE LET r == responses[k]
             seen == Append(consulted, k)
         IN IF r.kind = "err"
            THEN \* `?` on send() and on text(): the error leaves the function
                 [status |-> "err", ip |-> None,
                  err |-> TransportMsg(servers[k]), consulted |-> seen]
            ELSE LET parsed == ParseIpv4(Trim(r.body))
                 IN IF parsed # None
                    THEN [status |-> "ok", ip |-> parsed, err |-> <<>>, consulted |-> seen]
                    ELSE ResolveLoop(servers, responses, k + 1, seen)

get_outside_ip(responses, preferred_server) ==
    ResolveLoop(ServerList(preferred_server), responses, 1, <<>>)

----------------------------------------------------------------------------
(* config.rs: the persisted state *)

CONFIG_DIR_LOCAL == "."
CONFIG_DIR_DOCKER == "/config"
CONFIG_FILE == "cdu.toml"

\* a directory a --config-dir option can name
OPTION_DIR == "/data"
DIRS == {CONFIG_DIR_LOCAL, CONFIG_DIR_DOCKER, OPTION_DIR}
Paths == DIRS \X {CONFIG_FILE}

\* PathBuf::join of a directory and a relative file name, and Path::parent of it
JoinPath(dir, name) == <<dir, name>>
ParentDir(path) == path[1]

\* impl Default for Config; `now` is Utc::now()
\* (webhook_url is the field main.rs sets and reads; config.rs neither
\* serializes nor loads it)
DefaultConfig(docker, now) ==
    [outside_ip |-> None, cloudflare_ip |-> None, last_updated |-> now,
     save_dir |-> IF docker THEN CONFIG_DIR_DOCKER ELSE CONFIG_DIR_LOCAL,
     file_name |-> CONFIG_FILE, webhook_url |-> None]

\* A TOML document: the keys it holds and their values (a key that is not in
\* `keys` has no value).  IP values are text; the timestamp is kept as a tick.
EmptyDoc ==
    [keys |-> {}, outside_ip |-> <<>>, cloudflare_ip |-> <<>>, last_updated |-> 0,
     save_dir |-> "", file_name |-> ""]

\* toml::to_string_pretty(self): a None field is left out
ToToml(c) ==
    [keys |-> {"last_updated", "save_dir", "file_name"}
              \cup (IF c.outside_ip # None THEN {"outside_ip"} ELSE {})
              \cup (IF c.cloudflare_ip # None THEN {"cloudflare_ip"} ELSE {}),
     outside_ip |-> IF c.outside_ip # None THEN IpToText(c.outside_ip) ELSE <<>>,
     cloudflare_ip |-> IF c.cloudflare_ip # None THEN IpToText(c.cloudflare_ip) ELSE <<>>,
     last_updated |-> c.last_updated,
     save_dir |-> c.save_dir,
     file_name |-> c.file_name]

\* an Option<Ipv4Addr> field of the document
OptIpOk(doc, key) == key \in doc.keys => ParseIpv4(doc[key]) # None
OptIp(doc, key) == IF key \in doc.keys THEN ParseIpv4(doc[key]) ELSE None

\* toml::from_str::<Config>: the three plain fields are required, the two
\* Option fields may be missing, a present IP must parse
FromTomlOk(doc) ==
    /\ {"last_updated", "save_dir", "file_name"} \subseteq doc.keys
    /\ OptIpOk(doc, "outside_ip")
    /\ OptIpOk(doc, "cloudflare_ip")
FromToml(doc) ==
    [outside_ip |-> OptIp(doc, "outside_ip"),
     cloudflare_ip |-> OptIp(doc, "cloudflare_ip"),
     last_updated |-> doc.last_updated,
     save_dir |-> doc.save_dir,
     file_name |-> doc.file_name,
     webhook_url |-> None]

\* a file of the file system
AbsentFile == [state |-> "absent", doc |-> EmptyDoc]
UnreadableFile == [state |-> "unreadable", doc |-> EmptyDoc]
PresentFile(doc) == [state |-> "present", doc |-> doc]

\* faulty variant: load replaces the whole Config by the parsed one
LoadedFieldsWhole(self, parsed) == [parsed EXCEPT !.webhook_url = self.webhook_url]

\* the fields Config::load copies from the parsed file
LoadedFields(self, parsed) ==
    [self EXCEPT !.outside_ip = parsed.outside_ip,
                 !.cloudflare_ip = parsed.cloudflare_ip,
                 !.last_updated = parsed.last_updated]

\* Config::load(&mut self): the result and self afterwards.
\* fsFiles: the files by path; fsDirs: whether metadata() of a directory succeeds
ConfigLoad(self, fsFiles, fsDirs) ==
    LET config_path == JoinPath(self.save_dir, self.file_name)
        config_dir == ParentDir(config_path)
        file == fsFiles[config_path]
    IN IF ~fsDirs[config_dir]
       THEN [result |-> "Err", err |-> <<"Problem with config directory: ", config_dir>>,
             config |-> self]
       ELSE IF file.state = "absent"
       THEN [result |-> "Ok", err |-> <<>>, config |-> self]
       ELSE IF file.state = "unreadable"
       THEN [result |-> "Err", err |-> <<"Failed to read file: ", config_path>>,
             config |-> self]
       ELSE IF ~FromTomlOk(file.doc)
       THEN [result |-> "Err", err |-> <<"Failed to parse JSON from file: ", config_path>>,
             config |-> self]
       ELSE [result |-> "Ok", err |-> <<>>,
             config |-> LoadedFields(self, FromToml(file.doc))]

\* Config::save(&self): the result and the files afterwards.
\* io is what the file system does: "ok"; "create_err" (File::create fails,
\* nothing is touched); "write_err" (the file was created, so truncated, and
\* write_all fails)
SaveOutcomes == {"ok", "create_err", "write_err"}
ConfigSave(self, fsFiles, io) ==
    LET config_path == JoinPath(self.save_dir, self.file_name)
    IN IF io = "create_err"
       THEN [result |-> "Err", err |-> <<"Failed to create file: ", config_path>>,
             files |-> fsFiles]
       ELSE IF io = "write_err"
       THEN [result |-> "Err", err |-> <<"Failed to write to file: ", config_path>>,
             files |-> [fsFiles EXCEPT ![config_path] = PresentFile(EmptyDoc)]]
       ELSE [result |-> "Ok", err |-> <<>>,
             files |-> [fsFiles EXCEPT ![config_path] = PresentFile(ToToml(self))]]

----------------------------------------------------------------------------
(* cloudflare.rs: the DNS provider client, and the provider *)

DOMAIN_NAME == "home.example.com"
WWW_DOMAIN == "www.example.com"

\* DnsRecord: the fields the program reads (name, type and content, id)
DnsRecord(name, type, content, id) ==
    [name |-> name, type |-> type, content |-> content, id |-> id]

\* The zone at the provider: a CNAME of the domain's name, an A record of
\* another name, then (when the domain has one) the A record of the domain.
ZoneWithout ==
    <<DnsRecord(DOMAIN_NAME, "CNAME", <<"t">>, "rec0"),
      DnsRecord(WWW_DOMAIN, "A", Ip(1), "rec2")>>
ZoneWith(ip) == Append(ZoneWithout, DnsRecord(DOMAIN_NAME, "A", ip, "rec1"))
\* a zone with two A records of the domain
ZoneTwice(ip) == Append(ZoneWith(ip), DnsRecord(DOMAIN_NAME, "A", Ip(1), "rec3"))
Zones == {ZoneWithout} \cup {ZoneWith(ip) : ip \in IPS} \cup {ZoneTwice(Ip(NumIPs))}

\* the scan of get_a_record: the first A record whose name is the domain
IsARecordOf(record, domain) == record.type = "A" /\ record.name = domain
FirstARecord(result, domain) ==
    IF \E k \in 1..Len(result) : IsARecordOf(result[k], domain)
    THEN result[CHOOSE k \in 1..Len(result) :
                    /\ IsARecordOf(result[k], domain)
                    /\ \A j \in 1..(k - 1) : ~IsARecordOf(result[j], domain)]
    ELSE None

\* faulty variant: a failed list call is taken for an empty but usable answer: the
\* record the handler holds, or the first of the zone, is reported
get_a_record_unchecked(self_dns_record, result, domain, http) ==
    LET record == FirstARecord(result, domain)
    IN IF record # None
       THEN [result |-> "Ok", err |-> <<>>, content |-> record.content,
             dns_record |-> record]
       ELSE [result |-> "Err", err |-> <<"A record for ", domain, " not found">>,
             content |-> None, dns_record |-> self_dns_record]

\* Handler::get_a_record(&mut self, domain).  http is "ok" when the list call
\* was sent and its JSON parsed, "err" otherwise; result is the zone's records.
FetchOutcomes == {"ok", "err"}
get_a_record(self_dns_record, result, domain, http) ==
    IF http # "ok"
    THEN [result |-> "Err", err |-> <<"error sending or decoding the dns_records list">>,
          content |-> None, dns_record |-> self_dns_record]
    ELSE LET record == FirstARecord(result, domain)
         IN IF record # None
            THEN [result |-> "Ok", err |-> <<>>, content |-> record.content,
                  dns_record |-> record]
            ELSE [result |-> "Err", err |-> <<"A record for ", domain, " not found">>,
                  content |-> None, dns_record |-> self_dns_record]

\* What the provider answers to the PUT: a success status; a non-success
\* status with a body; or no answer (send() fails).
ErrorBodies == {"{\"success\":false,\"errors\":[{\"code\":9109}]}", "rate limited"}
UpdateOutcomes ==
    {[kind |-> "success", body |-> ""], [kind |-> "send_err", body |-> ""]}
    \cup {[kind |-> "status", body |-> b] : b \in ErrorBodies}

\* faulty variant: the PUT carries the content the record already has
PutRequestStale(record, new_ip) ==
    [sent |-> TRUE, id |-> record.id, type |-> "A", name |-> record.name,
     content |-> IpToText(record.content)]

\* the PUT request of update_a_record: the record id of the URL and the JSON body
NoRequest == [sent |-> FALSE, id |-> "", type |-> "", name |-> "", content |-> <<>>]
PutRequest(record, new_ip) ==
    [sent |-> TRUE, id |-> record.id, type |-> "A", name |-> record.name,
     content |-> IpToText(new_ip)]

\* faulty variant: the status of the answer is not looked at
update_a_record_lenient(self_dns_record, new_ip, answer) ==
    IF self_dns_record # None
    THEN IF answer.kind # "send_err"
         THEN [result |-> "Ok", err |-> <<>>,
               request |-> [sent |-> TRUE, id |-> self_dns_record.id, type |-> "A",
                            name |-> self_dns_record.name, content |-> IpToText(new_ip)]]
         ELSE [result |-> "Err", err |-> <<"error sending request">>,
               request |-> [sent |-> TRUE, id |-> self_dns_record.id, type |-> "A",
                            name |-> self_dns_record.name, content |-> IpToText(new_ip)]]
    ELSE [result |-> "Err", err |-> <<"No DNS record to update">>,
          request |-> [sent |-> FALSE, id |-> "", type |-> "", name |-> "", content |-> <<>>]]

\* Handler::update_a_record(&self, new_ip): the result and the request issued
update_a_record(self_dns_record, new_ip, answer) ==
    IF self_dns_record # None
    THEN LET request == PutRequest(self_dns_record, new_ip)
         IN IF answer.kind = "success"
            THEN [result |-> "Ok", err |-> <<>>, request |-> request]
            ELSE IF answer.kind = "status"
            THEN [result |-> "Err",
                  err |-> <<"Failed to update A record: ", answer.body>>,
                  request |-> request]
            ELSE [result |-> "Err", err |-> <<"error sending request">>,
                  request |-> request]
    ELSE [result |-> "Err", err |-> <<"No DNS record to update">>, request |-> NoRequest]

\* Handler::set_a_record(domain, new_ip), the call main.rs makes: the update
\* of the fetched record
set_a_record(self_dns_record, domain, new_ip, answer) ==
    update_a_record(self_dns_record, new_ip, answer)

\* The provider's side of the PUT: a request answered with a success status
\* has replaced type, name and content of the record with the URL's id.
ProviderApply(zone, request, answer) ==
    IF request.sent /\ answer.kind = "success"
    THEN [k \in 1..Len(zone) |->
            IF zone[k].id = request.id
            THEN DnsRecord(request.name, request.type, ParseIpv4(request.content), request.id)
            ELSE zone[k]]
    ELSE zone

----------------------------------------------------------------------------
(* webhook.rs: the notifier *)

WEBHOOK_URL == "https://discord.example/api/webhooks/1"
\* what the webhook endpoint does with the POST
WebhookOutcomes == {"success", "status_err", "send_err"}

\* webhook::send(url, message): Err only when send() (or reading the body of
\* a non-success answer) fails; a non-success status is logged and is Ok
webhook_send(webhook_url, message, answer) ==
    IF answer = "send_err" THEN "Err" ELSE "Ok"

\* format!("Updated A record of {domain} to {outside_ip}")
UpdateMessage(domain, ip) == <<"Updated A record of ", domain, " to ">> \o IpToText(ip)

----------------------------------------------------------------------------
(* State *)

VARIABLES
    pc,             \* where the program is: a step of app, or "done"/"failed"
    runs,           \* the runs started so far (also the clock of Utc::now())
    docker_runtime, \* whether DOCKER_RUNTIME is set in the environment
    args,           \* the parsed options of the run
    config,         \* main.rs `config`
    config0,        \* `config` as it was before Config::load
    load_result,    \* what Config::load returned
    loaded,         \* `config` as the run starts to use it (after main.rs:64)
    files,          \* the file system: the file at each path
    files0,         \* the file system as the run found it
    dirs,           \* the file system: whether each directory is accessible
    preferred,      \* get_outside_ip's preferred_server
    endpoints,      \* what the endpoint at each list position does
    res,            \* what get_outside_ip returned
    records,        \* the provider's zone
    dns_record,     \* Handler.dns_record
    outside_ip,     \* main.rs `outside_ip`
    cloudflare_ip,  \* main.rs `cloudflare_ip`
    calls,          \* the external calls of the run, in order
    exit_code,      \* <<>> while running, then <<code>>
    err,            \* the message main prints to stderr
    samefile,       \* every run so far loaded from the path it saves to
    clientok        \* every run so far that built the provider client got it

vars == <<pc, runs, docker_runtime, args, config, config0, load_result, loaded,
          files, files0, dirs, preferred, endpoints, res, records, dns_record,
          outside_ip, cloudflare_ip, calls, exit_code, err, samefile, clientok>>

NoArgs == [dry_run |-> FALSE, config_dir |-> None, webhook_url |-> None]
NoConfig == DefaultConfig(FALSE, 0)
NoFiles == [p \in Paths |-> AbsentFile]
AllDirs == [d \in DIRS |-> TRUE]

\* one external call of the run
Call(op, ok, detail) == [op |-> op, ok |-> ok, detail |-> detail]

\* main.rs:30-36: app returned Ok(()): the process ends with code 0
ExitOk ==
    /\ pc' = "done"
    /\ exit_code' = <<0>>
    /\ err' = <<>>
\* main.rs:30-36: app returned Err(e): "Error: {e}" on stderr, exit(1)
ExitErr(e) ==
    /\ pc' = "failed"
    /\ exit_code' = <<1>>
    /\ err' = <<"Error: ">> \o e

----------------------------------------------------------------------------
(* main.rs: one run of app, step by step *)

\* the file a first run can find at the default path: none, or one whose IP
\* fields are no addresses
InvalidIpText == <<"i", "n", "v", "a", "l", "i", "d", " ", "i", "p">>
InvalidIpDoc ==
    [keys |-> {"outside_ip", "cloudflare_ip", "last_updated", "save_dir", "file_name"},
     outside_ip |-> InvalidIpText, cloudflare_ip |-> InvalidIpText, last_updated |-> 0,
     save_dir |-> CONFIG_DIR_DOCKER, file_name |-> CONFIG_FILE]

Init ==
    /\ pc = "idle"
    /\ runs = 0
    /\ docker_runtime \in BOOLEAN
    /\ args = NoArgs
    /\ config = NoConfig
    /\ config0 = NoConfig
    /\ load_result = "none"
    /\ loaded = NoConfig
    /\ \E f \in {AbsentFile, PresentFile(InvalidIpDoc)} :
          files = [NoFiles EXCEPT
                     ![JoinPath(DefaultConfig(docker_runtime, 0).save_dir, CONFIG_FILE)] = f]
    /\ files0 = files
    /\ dirs = AllDirs
    /\ preferred = None
    /\ endpoints = <<>>
    /\ res = NoRes
    /\ records \in Zones
    /\ dns_record = None
    /\ outside_ip = None
    /\ cloudflare_ip = None
    /\ calls = <<>>
    /\ exit_code = <<>>
    /\ err = <<>>
    /\ samefile = TRUE
    /\ clientok = TRUE

\* main.rs:41-51: dotenv() and the options.  dotenv() fails when there is no
\* .env file.
StartRun ==
    /\ pc \in {"idle", "done", "failed"}
    /\ runs < MaxRuns
    /\ runs' = runs + 1
    /\ calls' = <<>>
    /\ files0' = files
    /\ res' = NoRes
    /\ dns_record' = None
    /\ outside_ip' = None
    /\ cloudflare_ip' = None
    /\ load_result' = "none"
    /\ config' = NoConfig
    /\ config0' = NoConfig
    /\ loaded' = NoConfig
    /\ \E dry \in BOOLEAN, dir \in {None, Some(OPTION_DIR)}, url \in {None, Some(WEBHOOK_URL)} :
          args' = [dry_run |-> dry, config_dir |-> dir, webhook_url |-> url]
    /\ \E dotenv_ok \in BOOLEAN :
          IF dotenv_ok
          THEN pc' = "load" /\ exit_code' = <<>> /\ err' = <<>>
          ELSE ExitErr(<<"path not found">>)
    /\ UNCHANGED <<docker_runtime, files, dirs, preferred, endpoints, records, samefile,
                   clientok>>

\* main.rs:56-64: the --config-dir and --webhook options set on the loaded config
WithOptions(c, a) ==
    [c EXCEPT !.save_dir = IF a.config_dir # None THEN Unwrap(a.config_dir) ELSE @,
              !.webhook_url = IF a.webhook_url # None THEN a.webhook_url ELSE @]

\* main.rs:53-64: Config::default(), config.load()?, then the options
LoadConfig ==
    /\ pc = "load"
    /\ LET c0 == DefaultConfig(docker_runtime, runs)
           r == ConfigLoad(c0, files, dirs)
       IN /\ config0' = c0
          /\ load_result' = r.result
          /\ calls' = Append(calls, Call("load", r.result = "Ok", <<>>))
          /\ IF r.result = "Ok"
             THEN /\ config' = WithOptions(r.config, args)
                  /\ loaded' = config'
                  /\ samefile' = (samefile /\ config'.save_dir = c0.save_dir)
                  /\ pc' = "resolve"
                  /\ UNCHANGED <<exit_code, err>>
             ELSE /\ config' = r.config
                  /\ ExitErr(r.err)
                  /\ UNCHANGED <<loaded, samefile>>
    /\ UNCHANGED <<runs, docker_runtime, args, files, files0, dirs, preferred, endpoints,
                   res, records, dns_record, outside_ip, cloudflare_ip, clientok>>

\* what the endpoints do in a run: all serve an address; the first serves
\* junk and the rest an address; all serve junk; the first errs
AllServe(o) == [k \in 1..Len(SERVERS) |-> o]
RunResponses ==
    {AllServe(BodyOutcome(IpBody(ip))) : ip \in IPS}
    \cup {[AllServe(BodyOutcome(IpBody(Ip(1)))) EXCEPT ![1] = BodyOutcome(JunkBody)],
          AllServe(BodyOutcome(JunkBody)),
          [AllServe(BodyOutcome(IpBody(Ip(1)))) EXCEPT ![1] = ErrOutcome]}

\* main.rs:66-72: get_outside_ip(&client, None), its error bailed as "Error: {e}"
ResolveIP ==
    /\ pc = "resolve"
    /\ \E responses \in RunResponses :
          LET r == get_outside_ip(responses, None)
          IN /\ res' = r
             /\ calls' = Append(calls, Call("resolve", r.status = "ok", <<>>))
             /\ IF r.status = "ok"
                THEN /\ outside_ip' = r.ip
                     /\ pc' = "compare_outside"
                     /\ UNCHANGED <<exit_code, err>>
                ELSE /\ ExitErr(<<"Error: ">> \o r.err)
                     /\ UNCHANGED outside_ip
    /\ UNCHANGED <<runs, docker_runtime, args, config, config0, load_result, loaded, files,
                   files0, dirs, preferred, endpoints, records, dns_record, cloudflare_ip,
                   samefile, clientok>>

\* faulty variant: the outside IP is compared with the provider-side IP of the state
OutsideUnchangedCf(c, ip) == c.cloudflare_ip # None /\ ip = c.cloudflare_ip

\* main.rs:74-80: the outside IP is the one the state holds
OutsideUnchanged(c, ip) == c.outside_ip # None /\ ip = c.outside_ip

\* main.rs:74-80: "Outside IP has not changed. Nothing to do."
CompareOutside ==
    /\ pc = "compare_outside"
    /\ IF OutsideUnchanged(config, outside_ip)
       THEN ExitOk
       ELSE pc' = "persist_outside" /\ UNCHANGED <<exit_code, err>>
    /\ UNCHANGED <<runs, docker_runtime, args, config, config0, load_result, loaded, files,
                   files0, dirs, preferred, endpoints, res, records, dns_record, outside_ip,
                   cloudflare_ip, calls, samefile, clientok>>

\* main.rs:84-88 and 111-115: `if let Err(e) = config.save() { error!(..) }
\* else { info!(..) }`: what the run goes on with after a save
AfterSave(save_result) == "Ok"

\* main.rs:82-88: the outside IP is set and the state saved
PersistOutside ==
    /\ pc = "persist_outside"
    /\ config' = [config EXCEPT !.outside_ip = outside_ip]
    /\ \E io \in SaveOutcomes :
          LET s == ConfigSave(config', files, io)
          IN /\ files' = s.files
             /\ calls' = Append(calls, Call("save", s.result = "Ok", [io |-> io]))
             /\ IF AfterSave(s.result) = "Ok"
                THEN pc' = "new_handler" /\ UNCHANGED <<exit_code, err>>
                ELSE ExitErr(s.err)
    /\ UNCHANGED <<runs, docker_runtime, args, config0, load_result, loaded, files0, dirs,
                   preferred, endpoints, res, records, dns_record, outside_ip,
                   cloudflare_ip, samefile, clientok>>

\* main.rs:93: Handler::try_new(api_key, zone_id)?; it fails when the API key
\* holds a character no HTTP header value may hold
NewHandler ==
    /\ pc = "new_handler"
    /\ \E key_ok \in BOOLEAN :
          /\ clientok' = (clientok /\ key_ok)
          /\ IF key_ok
             THEN /\ dns_record' = None
                  /\ pc' = "fetch"
                  /\ UNCHANGED <<exit_code, err>>
             ELSE /\ ExitErr(<<"failed to parse header value">>)
                  /\ UNCHANGED dns_record
    /\ calls' = Append(calls, Call("try_new", pc' = "fetch", <<>>))
    /\ UNCHANGED <<runs, docker_runtime, args, config, config0, load_result, loaded, files,
                   files0, dirs, preferred, endpoints, res, records, outside_ip,
                   cloudflare_ip, samefile>>

\* main.rs:96: cloudflare_client.get_a_record(domain)?
FetchRecord ==
    /\ pc = "fetch"
    /\ \E http \in FetchOutcomes :
          LET r == get_a_record(dns_record, records, DOMAIN_NAME, http)
          IN /\ calls' = Append(calls, Call("fetch", r.result = "Ok", [http |-> http]))
             /\ dns_record' = r.dns_record
             /\ IF r.result = "Ok"
                THEN /\ cloudflare_ip' = r.content
                     /\ pc' = "compare_provider"
                     /\ UNCHANGED <<exit_code, err>>
                ELSE /\ ExitErr(r.err)
                     /\ UNCHANGED cloudflare_ip
    /\ UNCHANGED <<runs, docker_runtime, args, config, config0, load_result, loaded, files,
                   files0, dirs, preferred, endpoints, res, records, outside_ip, samefile,
                   clientok>>

\* main.rs:100-106: nothing to do when the record holds the outside IP, and
\* nothing is done in a dry run
CompareProvider ==
    /\ pc = "compare_provider"
    /\ IF outside_ip = cloudflare_ip
       THEN ExitOk
       ELSE IF args.dry_run
       THEN ExitOk
       ELSE pc' = "update" /\ UNCHANGED <<exit_code, err>>
    /\ UNCHANGED <<runs, docker_runtime, args, config, config0, load_result, loaded, files,
                   files0, dirs, preferred, endpoints, res, records, dns_record, outside_ip,
                   cloudflare_ip, calls, samefile, clientok>>

\* main.rs:107-109: cloudflare_client.set_a_record(domain, outside_ip)?, then
\* config.cloudflare_ip = Some(outside_ip)
UpdateRecord ==
    /\ pc = "update"
    /\ \E answer \in UpdateOutcomes :
          LET r == set_a_record(dns_record, DOMAIN_NAME, outside_ip, answer)
          IN /\ records' = ProviderApply(records, r.request, answer)
             /\ calls' = Append(calls, Call("update", r.result = "Ok",
                                            [answer |-> answer, request |-> r.request]))
             /\ IF r.result = "Ok"
                THEN /\ config' = [config EXCEPT !.cloudflare_ip = outside_ip]
                     /\ pc' = "persist_provider"
                     /\ UNCHANGED <<exit_code, err>>
                ELSE /\ ExitErr(r.err)
                     /\ UNCHANGED config
    /\ UNCHANGED <<runs, docker_runtime, args, config0, load_result, loaded, files, files0,
                   dirs, preferred, endpoints, res, dns_record, outside_ip, cloudflare_ip,
                   samefile, clientok>>

\* main.rs:111-115: the state is saved after the update
PersistProvider ==
    /\ pc = "persist_provider"
    /\ \E io \in SaveOutcomes :
          LET s == ConfigSave(config, files, io)
          IN /\ files' = s.files
             /\ calls' = Append(calls, Call("save", s.result = "Ok", [io |-> io]))
             /\ IF AfterSave(s.result) = "Ok"
                THEN pc' = "notify" /\ UNCHANGED <<exit_code, err>>
                ELSE ExitErr(s.err)
    /\ UNCHANGED <<runs, docker_runtime, args, config, config0, load_result, loaded, files0,
                   dirs, preferred, endpoints, res, records, dns_record, outside_ip,
                   cloudflare_ip, samefile, clientok>>

\* faulty variant: the notification's error is propagated with `?`
AfterNotifyTry(send_result) == send_result

\* main.rs:118-123: `if let Err(e) = webhook::send(..) { error!(..) }`: what
\* the run goes on with after the notification
AfterNotify(send_result) == "Ok"

\* main.rs:117-128: the webhook, when one is configured; then Ok(())
Notify ==
    /\ pc = "notify"
    /\ IF config.webhook_url # None
       THEN \E answer \in WebhookOutcomes :
               LET r == webhook_send(config.webhook_url,
                                     UpdateMessage(DOMAIN_NAME, outside_ip), answer)
               IN /\ calls' = Append(calls, Call("webhook", r = "Ok",
                                        [answer |-> answer, url |-> config.webhook_url,
                                         message |-> UpdateMessage(DOMAIN_NAME, outside_ip)]))
                  /\ IF AfterNotify(r) = "Ok"
                     THEN ExitOk
                     ELSE ExitErr(<<"error sending request">>)
       ELSE ExitOk /\ UNCHANGED calls
    /\ UNCHANGED <<runs, docker_runtime, args, config, config0, load_result, loaded, files,
                   files0, dirs, preferred, endpoints, res, records, dns_record, outside_ip,
                   cloudflare_ip, samefile, clientok>>

Next ==
    \/ StartRun
    \/ LoadConfig
    \/ ResolveIP
    \/ CompareOutside
    \/ PersistOutside
    \/ NewHandler
    \/ FetchRecord
    \/ CompareProvider
    \/ UpdateRecord
    \/ PersistProvider
    \/ Notify

Spec == Init /\ [][Next]_vars

----------------------------------------------------------------------------
(* get_outside_ip on its own: every behaviour of the endpoints *)

\* the variables of a run of app, at rest
AppAtRest ==
    /\ runs = 0
    /\ docker_runtime = FALSE
    /\ args = NoArgs
    /\ loaded = NoConfig
    /\ files0 = NoFiles
    /\ records = ZoneWithout
    /\ dns_record = None
    /\ outside_ip = None
    /\ cloudflare_ip = None
    /\ calls = <<>>
    /\ exit_code = <<>>
    /\ samefile = TRUE
    /\ clientok = TRUE

PREFERRED_SERVER == "ifconfig.me"

InitResolve ==
    /\ AppAtRest
    /\ pc = "resolve_call"
    /\ preferred \in {None, Some(PREFERRED_SERVER)}
    /\ endpoints \in [1..Len(ServerList(preferred)) -> Outcomes]
    /\ res = NoRes
    /\ err = <<>>
    /\ config = NoConfig
    /\ config0 = NoConfig
    /\ load_result = "none"
    /\ files = NoFiles
    /\ dirs = AllDirs

\* get_outside_ip(&client, preferred_server)
ResolveCall ==
    /\ pc = "resolve_call"
    /\ res' = get_outside_ip(endpoints, preferred)
    /\ err' = res'.err
    /\ pc' = "resolve_return"
    /\ UNCHANGED <<runs, docker_runtime, args, config, config0, load_result, loaded, files,
                   files0, dirs, preferred, endpoints, records, dns_record, outside_ip,
                   cloudflare_ip, calls, exit_code, samefile, clientok>>

NextResolve == ResolveCall

SpecResolve == InitResolve /\ [][NextResolve]_vars

----------------------------------------------------------------------------
(* Config::load on its own: every directory, file and in-memory state *)

OptIPS == IPS \cup {None}
OLD_FILE_NAME == "old.toml"

\* documents that parse: every pair of optional addresses, with a save_dir
\* and a file_name of their own (as in test_load, where the file says
\* "/config" and the Config holds the temporary directory)
ValidDocs ==
    {ToToml([outside_ip |-> o, cloudflare_ip |-> c, last_updated |-> 1,
             save_dir |-> CONFIG_DIR_DOCKER, file_name |-> OLD_FILE_NAME,
             webhook_url |-> None]) : o \in OptIPS, c \in OptIPS}
\* documents that do not: an invalid IP in both fields (test_load), in one
\* field, and a document without the required fields
InvalidDocs ==
    {InvalidIpDoc,
     [ToToml(DefaultConfig(FALSE, 1)) EXCEPT
         !.keys = @ \cup {"cloudflare_ip"}, !.cloudflare_ip = <<"1", ".", "2", ".", "3">>],
     EmptyDoc}
LoadFiles ==
    {AbsentFile, UnreadableFile} \cup {PresentFile(d) : d \in ValidDocs \cup InvalidDocs}

InitLoad ==
    /\ AppAtRest
    /\ pc = "load_call"
    /\ preferred = None
    /\ endpoints = <<>>
    /\ res = NoRes
    /\ err = <<>>
    /\ \E docker \in BOOLEAN, o \in OptIPS, c \in OptIPS, d \in DIRS :
          config = [DefaultConfig(docker, 0) EXCEPT
                       !.outside_ip = o, !.cloudflare_ip = c, !.save_dir = d]
    /\ config0 = config
    /\ load_result = "none"
    \* a directory that is missing holds no file
    /\ \E dir_ok \in BOOLEAN, f \in LoadFiles :
          /\ dirs = [AllDirs EXCEPT ![config.save_dir] = dir_ok]
          /\ files = [NoFiles EXCEPT ![JoinPath(config.save_dir, config.file_name)] =
                         IF dir_ok THEN f ELSE AbsentFile]

\* config.load()
LoadCall ==
    /\ pc = "load_call"
    /\ LET r == ConfigLoad(config, files, dirs)
       IN /\ config0' = config
          /\ config' = r.config
          /\ load_result' = r.result
          /\ err' = r.err
    /\ pc' = "load_return"
    /\ UNCHANGED <<runs, docker_runtime, args, loaded, files, files0, dirs, preferred,
                   endpoints, res, records, dns_record, outside_ip, cloudflare_ip, calls,
                   exit_code, samefile, clientok>>

NextLoad == LoadCall

SpecLoad == InitLoad /\ [][NextLoad]_vars

----------------------------------------------------------------------------
(* Properties of get_outside_ip (SpecResolve) *)

\* the endpoint at list position k answers with a body that is an IPv4
\* address once trimmed
ServesAddress(k) ==
    /\ endpoints[k].kind = "body"
    /\ ParseIpv4(Trim(endpoints[k].body)) # None
SomeServes == \E k \in 1..Len(endpoints) : ServesAddress(k)
FirstServing ==
    CHOOSE k \in 1..Len(endpoints) :
        ServesAddress(k) /\ \A j \in 1..(k - 1) : ~ServesAddress(j)
UpTo(n) == [k \in 1..n |-> k]

\* C4: when some endpoint of the list serves an address, get_outside_ip
\* returns the address of the first such endpoint, whatever the endpoints
\* before it did, and consults exactly the endpoints up to it.
C4_FirstAddressReturned ==
    (pc = "resolve_return" /\ SomeServes) =>
        /\ res.status = "ok"
        /\ res.ip = ParseIpv4(Trim(endpoints[FirstServing].body))
        /\ res.consulted = UpTo(FirstServing)

\* C5: when no endpoint serves an address (each errs or serves something
\* else), get_outside_ip fails with the exhaustion error and has consulted
\* every endpoint of the list exactly once.
C5_ExhaustedAfterAll ==
    (pc = "resolve_return" /\ ~SomeServes) =>
        /\ res.status = "err"
        /\ res.err = ExhaustedMsg
        /\ res.consulted = UpTo(Len(endpoints))

----------------------------------------------------------------------------
(* Properties of Config::load (SpecLoad) *)

LoadPath == JoinPath(config0.save_dir, config0.file_name)
LoadFile == files[LoadPath]
InvalidIpDocs == InvalidDocs \ {EmptyDoc}

\* the Option<Ipv4Addr> value v is what the document says under key
SameAsFile(v, doc, key) ==
    IF key \in doc.keys THEN v # None /\ IpToText(v) = doc[key] ELSE v = None

\* load of a file that does not exist is Ok and changes no field
LoadAbsentOk ==
    LoadFile.state = "absent" => (load_result = "Ok" /\ config = config0)
\* load of a file with an invalid IP field is an error and changes no field
LoadInvalidErr ==
    (LoadFile.state = "present" /\ LoadFile.doc \in InvalidIpDocs) =>
        (load_result = "Err" /\ config = config0)
\* load of a valid file takes the two addresses and the time stamp from the
\* file and keeps save_dir, file_name (and webhook_url)
LoadValidCopies ==
    (LoadFile.state = "present" /\ LoadFile.doc \in ValidDocs) =>
        /\ load_result = "Ok"
        /\ SameAsFile(config.outside_ip, LoadFile.doc, "outside_ip")
        /\ SameAsFile(config.cloudflare_ip, LoadFile.doc, "cloudflare_ip")
        /\ config.last_updated = LoadFile.doc.last_updated
        /\ config.save_dir = config0.save_dir
        /\ config.file_name = config0.file_name
        /\ config.webhook_url = config0.webhook_url

----------------------------------------------------------------------------
(* Properties of a run of app (Spec) *)

RunOver == pc \in {"done", "failed"}
CallsOf(op) == {k \in 1..Len(calls) : calls[k].op = op}
HasCall(op) == CallsOf(op) # {}
IsLastCall(k) == k = Len(calls)

\* the run's resolver returned the outside_ip the run loaded from the state
ResolvedIsLoaded ==
    /\ res.status = "ok"
    /\ loaded.outside_ip # None
    /\ res.ip = loaded.outside_ip

\* the run ended at "Outside IP has not changed. Nothing to do."
ShortCircuited ==
    /\ pc = "done"
    /\ calls # <<>>
    /\ calls[Len(calls)].op = "resolve"

\* the path the run saves the state to, and the cloudflare_ip a file system
\* holds there (as text; <<>> when there is none)
SavePath == JoinPath(config.save_dir, config.file_name)
OptionSavePath ==
    JoinPath(IF args.config_dir # None THEN Unwrap(args.config_dir)
             ELSE DefaultConfig(docker_runtime, 0).save_dir, CONFIG_FILE)
PersistedCf(fs, path) ==
    IF fs[path].state = "present" /\ "cloudflare_ip" \in fs[path].doc.keys
    THEN fs[path].doc.cloudflare_ip
    ELSE <<>>

\* the zone's A record of the domain: the first in the list
IsDomainA(k) == records[k].type = "A" /\ records[k].name = DOMAIN_NAME
HasDomainA == \E k \in 1..Len(records) : IsDomainA(k)
DomainA ==
    records[CHOOSE k \in 1..Len(records) :
                IsDomainA(k) /\ \A j \in 1..(k - 1) : ~IsDomainA(j)]

\* C1: when the resolver returns the outside_ip that was loaded from the
\* persisted state, the run makes no provider fetch, no update, no save and
\* no webhook call, touches neither the files nor the zone's record, and ends
\* Done with exit code 0 (it is never Failed and never at a later step).
C1_ShortCircuit ==
    ResolvedIsLoaded =>
        /\ pc \in {"compare_outside", "done"}
        /\ pc = "done" => exit_code = <<0>>
        /\ \A k \in 1..Len(calls) : calls[k].op \in {"load", "resolve"}
        /\ files = files0

\* a second run that found the outside IP of the first run's state
C1_Witness ==
    /\ ResolvedIsLoaded
    /\ pc = "done"
    /\ runs = 2
    /\ exit_code = <<0>>

\* the case of C2: a finished run, not dry, whose fetch succeeded and whose
\* resolved IP is neither the loaded outside_ip nor the fetched content
UpdateDue ==
    /\ RunOver
    /\ ~args.dry_run
    /\ \E k \in CallsOf("fetch") : calls[k].ok
    /\ res.status = "ok"
    /\ res.ip # loaded.outside_ip
    /\ res.ip # cloudflare_ip

\* exactly one update call, after the fetch, to the fetched record's id, with
\* the resolved IP as content
OneUpdateCall ==
    /\ Cardinality(CallsOf("update")) = 1
    /\ \A k \in CallsOf("update") :
          /\ \E j \in CallsOf("fetch") : j < k
          /\ calls[k].detail.request.sent
          /\ HasDomainA
          /\ calls[k].detail.request.id = DomainA.id
          /\ calls[k].detail.request.content = IpToText(res.ip)

UpdateSucceeded ==
    \E k \in CallsOf("update") : calls[k].detail.answer.kind = "success"
SaveAfterUpdateSucceeded ==
    \E k \in CallsOf("update") :
        /\ k < Len(calls)
        /\ calls[k + 1].op = "save"
        /\ calls[k + 1].detail.io = "ok"

C3_DryRunFrame ==
    (runs > 0 /\ args.dry_run /\ \A k \in CallsOf("save") : calls[k].detail.io = "ok") =>
        /\ ~HasCall("update")
        /\ ~HasCall("webhook")
        /\ PersistedCf(files, OptionSavePath) = PersistedCf(files0, OptionSavePath)
        /\ pc = "failed" => (calls = <<>> \/ ~calls[Len(calls)].ok)
        /\ pc = "done" => (exit_code = <<0>> /\ HasCall("resolve")
                           /\ (ShortCircuited \/ HasCall("fetch")))

\* C6: when the provider answers the update call with a non-success status,
\* update_a_record returns an error whose message holds the response body, the
\* run ends Failed with exit code 1 at that call (no save and no webhook call
\* follows), the in-memory cloudflare_ip is still the loaded one, and the
\* persisted cloudflare_ip is the new address only if it already was before
\* the run or in the loaded state.
C6_UpdateRejected ==
    \A k \in CallsOf("update") :
        calls[k].detail.answer.kind = "status" =>
            /\ ~calls[k].ok
            /\ IsLastCall(k)
            /\ pc = "failed"
            /\ exit_code = <<1>>
            /\ \E i \in 1..Len(err) : err[i] = calls[k].detail.answer.body
            /\ config.cloudflare_ip = loaded.cloudflare_ip
            /\ ~HasCall("webhook")
            /\ PersistedCf(files, SavePath) = IpToText(res.ip) =>
                  \/ loaded.cloudflare_ip = res.ip
                  \/ PersistedCf(files0, SavePath) = IpToText(res.ip)

\* a run with a webhook configured whose update was rejected
C6_Witness ==
    /\ pc = "failed"
    /\ args.webhook_url # None
    /\ \E k \in CallsOf("update") :
          calls[k].detail.answer.kind = "status" /\ IsLastCall(k)

\* call k of the run raised an error
CallFailed(k) ==
    \/ ~calls[k].ok
    \/ calls[k].op = "save" /\ calls[k].detail.io # "ok"
    \/ calls[k].op = "fetch" /\ calls[k].detail.http # "ok"
    \/ calls[k].op = "update" /\ calls[k].detail.answer.kind # "success"
\* the run was aborted at call k
AbortedAt(k) == IsLastCall(k) /\ pc = "failed" /\ exit_code = <<1>>

NotifyOnlyAfterUpdate ==
    \A k \in CallsOf("webhook") :
        /\ args.webhook_url # None
        /\ \E j \in CallsOf("update") : j < k /\ calls[j].detail.answer.kind = "success"

C10_ShortCircuitMeansUpdated ==
    (ShortCircuited /\ samefile /\ clientok /\ HasDomainA) =>
        DomainA.content = res.ip


\* the outside_ip a file system holds at a path (as text; <<>> when none)
PersistedOutside(fs, path) ==
    IF fs[path].state = "present" /\ "outside_ip" \in fs[path].doc.keys
    THEN fs[path].doc.outside_ip
    ELSE <<>>
\* call k is the run's last save so far
LastSave(k) == k \in CallsOf("save") /\ \A j \in CallsOf("save") : j <= k
\* the run got past Config::load
LoadedOk == runs > 0 /\ \E k \in CallsOf("load") : calls[k].ok

\* C11: within a run the path the state was read from is the path every save
\* writes to, also with a --config-dir option (once the run's last save has
\* succeeded, the file that was read holds the resolved outside IP); hence the outside_ip a
\* run compares with is the one the state file of its options held when the
\* run began, that is, the one the previous run with these options saved.
C11_LoadAndSaveSamePath ==
    /\ HasCall("save") => SavePath = LoadPath
    /\ (\E k \in CallsOf("save") : LastSave(k) /\ calls[k].detail.io = "ok") =>
          PersistedOutside(files, LoadPath) = IpToText(res.ip)
    /\ (LoadedOk /\ files0[OptionSavePath].state = "present"
        /\ FromTomlOk(files0[OptionSavePath].doc)) =>
          SameAsFile(loaded.outside_ip, files0[OptionSavePath].doc, "outside_ip")

====
